---- MODULE Spec2Model ----
(***************************************************************************)
(* Room membership of app/model.py: the `room` and `room_member` tables,   *)
(* and create_room, join_room, search_room and update_room_status run by   *)
(* concurrent request handlers.  Every `with engine.begin() as conn` block *)
(* of the source is a transaction of its own on a connection of its own:   *)
(* its writes are invisible to the others until the block is left.         *)
(***************************************************************************)
EXTENDS Integers, Sequences, FiniteSets, TLC

\* ---- bounds of the model
NProcs == 2          \* request handlers that may run at the same time
NUsers == 5          \* rows of the `user` table
MaxRooms == 2        \* rooms ever created
MaxCalls == 5        \* requests received in one run
ShortCalls == 3      \* requests received in one short run
PoolSize == 3        \* connections the engine's pool can give out

\* ---- program constants
Ok == 1
RoomFull == 2
Disbanded == 3
OtherError == 4
Waiting == 1
LiveStart == 2
Dissolution == 3
normal == 1
hard == 2
max_user_count == 4

JoinRoomResult == {Ok, RoomFull, Disbanded, OtherError}
WaitRoomStatus == {Waiting, LiveStart, Dissolution}
LiveDifficulty == {normal, hard}

None == 0
Procs == 1..NProcs
UserIds == 1..NUsers
RoomIds == 1..MaxRooms
LiveIds == {5, 6}

\* The session token of user u, and a token no user has.
TokenOf(u) == 100 + u
BadToken == TokenOf(None)

\* The `user` table; it is not written by any operation modelled here.
user == {[id |-> u, token |-> TokenOf(u)] : u \in UserIds}

\* SELECT id, ... FROM user WHERE token=:token; None when no row matches.
get_user_by_token(token) ==
    IF \E row \in user : row.token = token
    THEN (CHOOSE row \in user : row.token = token).id
    ELSE None

\* The value the store gives room_member.in_order when an INSERT names no
\* in_order (the schema is not part of model.py).
in_order_default == 1

VARIABLES
    room,          \* committed `room` rows: id -> [live_id, room_master, joined_user_count, status]
    room_member,   \* committed `room_member` rows, per room_id, in commit order
    next_room_id,  \* the AUTO_INCREMENT counter of `room`
    pc,            \* where each handler is
    frame,         \* each handler's arguments and locals
    uncommitted,   \* each handler's written, not yet committed rows
    response,      \* the call that ended last: its arguments and what it returned or raised
    presented,     \* how many users' tokens have been presented so far
    calls          \* how many more requests will be received

vars == <<room, room_member, next_room_id, pc, frame, uncommitted, response, presented, calls>>

NoFrame ==
    [op |-> "none", token |-> 0, room_id |-> 0, live_id |-> 0, difficulty |-> 0,
     user |-> None, judge_join |-> 0, user_count |-> 0,
     pre |-> [exists |-> FALSE, joined_user_count |-> 0, status |-> 0,
              members |-> 0, member |-> FALSE]]

NoWrites == [room |-> {}, room_member |-> <<>>]
NoResponse == [call |-> NoFrame, kind |-> "none", val |-> 0, exc |-> ""]
Return(call, v) == [call |-> call, kind |-> "return", val |-> v, exc |-> ""]
Raise(call, e) == [call |-> call, kind |-> "raise", val |-> 0, exc |-> e]

Init ==
    /\ room = <<>>
    /\ room_member = [r \in RoomIds |-> <<>>]
    /\ next_room_id = 1
    /\ pc = [p \in Procs |-> "idle"]
    /\ frame = [p \in Procs |-> NoFrame]
    /\ uncommitted = [p \in Procs |-> NoWrites]
    /\ response = NoResponse
    /\ presented = 0
    /\ calls = MaxCalls

Free(p) == pc[p] = "idle"

\* The tokens a request may carry.  Users are alike until their tokens are
\* first presented, so a token new to the server is always the next user's;
\* a token presented before is the first user's; BadToken is no user's.
UsableTokens ==
    {TokenOf(u) : u \in {1, IF presented < NUsers THEN presented + 1 ELSE NUsers}}
        \cup {BadToken}

Present(token) ==
    /\ calls > 0
    /\ calls' = calls - 1
    /\ presented' = IF token = TokenOf(presented + 1) THEN presented + 1 ELSE presented

UserIdsOf(rows) == {rows[i].user_id : i \in DOMAIN rows}

\* What a call finds when it starts (kept for stating the claims only).
Snapshot(room_id, user_id) ==
    IF room_id \in DOMAIN room
    THEN [exists |-> TRUE,
          joined_user_count |-> room[room_id].joined_user_count,
          status |-> room[room_id].status,
          members |-> Len(room_member[room_id]),
          member |-> user_id \in UserIdsOf(room_member[room_id])]
    ELSE NoFrame.pre

\* ---- create_room
\* Rooms created so far, and about to be by the calls that have started.
RoomsClaimed ==
    next_room_id - 1 + Cardinality({p \in Procs : pc[p] = "cr_insert_room"})

\* create_room without the test of user for None.
create_room_unchecked(p, token, live_id, difficulty) ==
    /\ Free(p)
    /\ RoomsClaimed < MaxRooms
    /\ Present(token)
    /\ frame' = [frame EXCEPT ![p] =
           [NoFrame EXCEPT !.op = "create_room", !.token = token,
                           !.live_id = live_id, !.difficulty = difficulty,
                           !.user = get_user_by_token(token)]]
    /\ pc' = [pc EXCEPT ![p] = "cr_insert_room"]
    /\ UNCHANGED <<room, room_member, next_room_id, uncommitted, response>>

create_room(p, token, live_id, difficulty) ==
    /\ Free(p)
    /\ RoomsClaimed < MaxRooms
    /\ Present(token)
    /\ LET u == get_user_by_token(token)
           call == [NoFrame EXCEPT !.op = "create_room", !.token = token,
                                   !.live_id = live_id, !.difficulty = difficulty,
                                   !.user = u]
       IN IF u = None
          THEN /\ response' = Raise(call, "InvalidToken")
               /\ UNCHANGED <<pc, frame>>
          ELSE /\ pc' = [pc EXCEPT ![p] = "cr_insert_room"]
               /\ frame' = [frame EXCEPT ![p] = call]
               /\ UNCHANGED response
    /\ UNCHANGED <<room, room_member, next_room_id, uncommitted>>

\* create_room with the room row committed by its INSERT (autocommit).
create_room_insert_room_autocommit(p) ==
    /\ pc[p] = "cr_insert_room"
    /\ room' = [r \in DOMAIN room \cup {next_room_id} |->
                   IF r = next_room_id
                   THEN [live_id |-> frame[p].live_id, room_master |-> frame[p].user,
                         joined_user_count |-> 1, status |-> 1]
                   ELSE room[r]]
    /\ frame' = [frame EXCEPT ![p].room_id = next_room_id]
    /\ next_room_id' = next_room_id + 1
    /\ pc' = [pc EXCEPT ![p] = "cr_insert_member"]
    /\ UNCHANGED <<room_member, uncommitted, response, presented, calls>>

create_room_insert_room(p) ==
    /\ pc[p] = "cr_insert_room"
    /\ uncommitted' = [uncommitted EXCEPT ![p].room =
           {[id |-> next_room_id, live_id |-> frame[p].live_id,
             room_master |-> frame[p].user, joined_user_count |-> 1, status |-> 1]}]
    /\ frame' = [frame EXCEPT ![p].room_id = next_room_id]
    /\ next_room_id' = next_room_id + 1
    /\ pc' = [pc EXCEPT ![p] = "cr_insert_member"]
    /\ UNCHANGED <<room, room_member, response, presented, calls>>

create_room_insert_member(p) ==
    /\ pc[p] = "cr_insert_member"
    /\ uncommitted' = [uncommitted EXCEPT ![p].room_member = Append(@,
           [room_id |-> frame[p].room_id, user_id |-> frame[p].user,
            difficulty |-> frame[p].difficulty, in_order |-> in_order_default])]
    /\ pc' = [pc EXCEPT ![p] = "cr_commit"]
    /\ UNCHANGED <<room, room_member, next_room_id, frame, response, presented, calls>>

\* Leaving a `with engine.begin()` block commits what the block wrote.
Commit(p) ==
    /\ room' = [r \in DOMAIN room \cup {w.id : w \in uncommitted[p].room} |->
                   IF \E w \in uncommitted[p].room : w.id = r
                   THEN LET w == CHOOSE w \in uncommitted[p].room : w.id = r IN
                        [live_id |-> w.live_id, room_master |-> w.room_master,
                         joined_user_count |-> w.joined_user_count, status |-> w.status]
                   ELSE room[r]]
    /\ room_member' = [r \in RoomIds |->
           room_member[r] \o SelectSeq(uncommitted[p].room_member,
                                       LAMBDA row : row.room_id = r)]
    /\ uncommitted' = [uncommitted EXCEPT ![p] = NoWrites]

\* The handler is done: its locals are gone, its answer is out.
Ends(p, answer) ==
    /\ pc' = [pc EXCEPT ![p] = "idle"]
    /\ frame' = [frame EXCEPT ![p] = NoFrame]
    /\ response' = answer

create_room_commit(p) ==
    /\ pc[p] = "cr_commit"
    /\ Commit(p)
    /\ Ends(p, Return(frame[p], frame[p].room_id))
    /\ UNCHANGED <<next_room_id, presented, calls>>

\* ---- join_room
join_room(p, token, room_id) ==
    /\ Free(p)
    /\ Present(token)
    /\ LET u == get_user_by_token(token) IN
       frame' = [frame EXCEPT ![p] =
           [NoFrame EXCEPT !.op = "join_room", !.token = token, !.room_id = room_id,
                           !.user = u, !.pre = Snapshot(room_id, u)]]
    /\ pc' = [pc EXCEPT ![p] = "jr_upto"]
    /\ UNCHANGED <<room, room_member, next_room_id, uncommitted, response>>

\* The if/elif chain of get_upto_member_room on the count it read.
upto_member(result) ==
    IF result > 4 THEN OtherError
    ELSE IF result = 4 THEN RoomFull
    ELSE IF result >= 0 THEN Ok
    ELSE IF result < 0 THEN Disbanded
    ELSE OtherError

\* get_upto_member_room answering OtherError when no row matches.
get_upto_member_room_other_error(p) ==
    /\ pc[p] = "jr_upto"
    /\ IF frame[p].room_id \notin DOMAIN room
       THEN Ends(p, Return(frame[p], OtherError))
       ELSE LET judge == upto_member(room[frame[p].room_id].joined_user_count)
                call == [frame[p] EXCEPT !.judge_join = judge]
            IN IF judge = Ok
               THEN /\ pc' = [pc EXCEPT ![p] = "jr_count"]
                    /\ frame' = [frame EXCEPT ![p] = call]
                    /\ UNCHANGED response
               ELSE Ends(p, Return(call, judge))
    /\ UNCHANGED <<room, room_member, next_room_id, uncommitted, presented, calls>>

\* judge_join = get_upto_member_room(room_id), and join_room's return of it
\* when it is not Ok.  `.one()` raises NoResultFound when no row matches.
get_upto_member_room(p) ==
    /\ pc[p] = "jr_upto"
    /\ IF frame[p].room_id \notin DOMAIN room
       THEN Ends(p, Raise(frame[p], "NoResultFound"))
       ELSE LET judge == upto_member(room[frame[p].room_id].joined_user_count)
                call == [frame[p] EXCEPT !.judge_join = judge]
            IN IF judge = Ok
               THEN /\ pc' = [pc EXCEPT ![p] = "jr_count"]
                    /\ frame' = [frame EXCEPT ![p] = call]
                    /\ UNCHANGED response
               ELSE Ends(p, Return(call, judge))
    /\ UNCHANGED <<room, room_member, next_room_id, uncommitted, presented, calls>>

\* user_count = get_room_user_count(room_id), then the evaluation of user.id
\* in the call of insert_room_member: AttributeError when user is None.
get_room_user_count(p) ==
    /\ pc[p] = "jr_count"
    /\ LET call == [frame[p] EXCEPT !.user_count =
                        room[frame[p].room_id].joined_user_count]
       IN IF frame[p].user = None
          THEN Ends(p, Raise(call, "AttributeError"))
          ELSE /\ pc' = [pc EXCEPT ![p] = "jr_insert"]
               /\ frame' = [frame EXCEPT ![p] = call]
               /\ UNCHANGED response
    /\ UNCHANGED <<room, room_member, next_room_id, uncommitted, presented, calls>>

\* insert_room_member given user_count, not user_count + 1.
insert_room_member_off_by_one(p) ==
    /\ pc[p] = "jr_insert"
    /\ uncommitted' = [uncommitted EXCEPT ![p].room_member = Append(@,
           [room_id |-> frame[p].room_id, user_id |-> frame[p].user,
            difficulty |-> 1, in_order |-> frame[p].user_count])]
    /\ pc' = [pc EXCEPT ![p] = "jr_upcount"]
    /\ UNCHANGED <<room, room_member, next_room_id, frame, response, presented, calls>>

\* The INSERT of insert_room_member(room_id, user.id, user_count + 1).
insert_room_member(p) ==
    /\ pc[p] = "jr_insert"
    /\ uncommitted' = [uncommitted EXCEPT ![p].room_member = Append(@,
           [room_id |-> frame[p].room_id, user_id |-> frame[p].user,
            difficulty |-> 1, in_order |-> frame[p].user_count + 1])]
    /\ pc' = [pc EXCEPT ![p] = "jr_upcount"]
    /\ UNCHANGED <<room, room_member, next_room_id, frame, response, presented, calls>>

\* upcount_joined_count with an UPDATE that has no WHERE.
upcount_joined_count_every_room(p) ==
    /\ pc[p] = "jr_upcount"
    /\ room' = [r \in DOMAIN room |-> [room[r] EXCEPT !.joined_user_count = @ + 1]]
    /\ pc' = [pc EXCEPT ![p] = "jr_commit"]
    /\ UNCHANGED <<room_member, next_room_id, frame, uncommitted, response,
                   presented, calls>>

\* upcount_joined_count, called inside insert_room_member's block: an UPDATE
\* in a transaction of its own, committed when upcount_joined_count returns.
upcount_joined_count(p) ==
    /\ pc[p] = "jr_upcount"
    /\ room' = [r \in DOMAIN room |->
                   IF r = frame[p].room_id
                   THEN [room[r] EXCEPT !.joined_user_count = @ + 1]
                   ELSE room[r]]
    /\ pc' = [pc EXCEPT ![p] = "jr_commit"]
    /\ UNCHANGED <<room_member, next_room_id, frame, uncommitted, response,
                   presented, calls>>

\* insert_room_member returning None: join_room answers OtherError after
\* the INSERT has been committed.
insert_room_member_commit_returns_none(p) ==
    /\ pc[p] = "jr_commit"
    /\ Commit(p)
    /\ Ends(p, Return(frame[p], OtherError))
    /\ UNCHANGED <<next_room_id, presented, calls>>

\* insert_room_member returns 1: its block commits the INSERT, and join_room
\* returns judge_join.
insert_room_member_commit(p) ==
    /\ pc[p] = "jr_commit"
    /\ Commit(p)
    /\ Ends(p, Return(frame[p], frame[p].judge_join))
    /\ UNCHANGED <<next_room_id, presented, calls>>

\* ---- update_room_status: UPDATE room SET status=:status, with no WHERE:
\* every committed row is updated, whatever room_id is.
update_room_status(room_id, status) ==
    /\ calls > 0
    /\ calls' = calls - 1
    /\ room' = [r \in DOMAIN room |-> [room[r] EXCEPT !.status = status]]
    /\ UNCHANGED <<room_member, next_room_id, pc, frame, uncommitted, response,
                   presented>>

\* ---- search_room: SELECT id FROM room WHERE live_id=:live_id AND
\* joined_user_count BETWEEN 1 AND 3; the ids, in no stated order.
search_room(live_id) ==
    {r \in DOMAIN room : /\ room[r].live_id = live_id
                         /\ room[r].joined_user_count >= 1
                         /\ room[r].joined_user_count <= 3}

\* ---- room_wait, and the queries it makes
Returned(v) == [kind |-> "return", val |-> v, exc |-> ""]
Raised(e) == [kind |-> "raise", val |-> 0, exc |-> e]

\* conn.execute(text(sql), params) needs a value for every :name of sql.
BindParametersGiven(names, params) == names \subseteq DOMAIN params

\* SELECT status FROM room WHERE id=:room_id, executed with {"id": room_id};
\* .one(); WaitRoomStatus(result) of the row, which is no member of the enum.
get_room_status(room_id) ==
    IF ~BindParametersGiven({"room_id"}, [id |-> room_id])
    THEN Raised("StatementError")
    ELSE IF room_id \notin DOMAIN room
    THEN Raised("NoResultFound")
    ELSE IF <<room[room_id].status>> \in WaitRoomStatus
    THEN Returned(<<room[room_id].status>>)
    ELSE Raised("ValueError")

\* SELECT room_master FROM room WHERE id=:room_id, executed with
\* {"id": room_id}; .one_or_none(); the function has no return statement.
get_room_host(room_id) ==
    IF ~BindParametersGiven({"room_id"}, [id |-> room_id])
    THEN Raised("StatementError")
    ELSE IF room_id \notin DOMAIN room
    THEN Raised("Exception")
    ELSE Returned(None)

\* room_wait: status, host, then user_info = get_upto_member_room(room_id),
\* a JoinRoomResult, and `for users in user_info` over it.
room_wait(room_id) ==
    LET status == get_room_status(room_id)
        host == get_room_host(room_id)
    IN IF status.kind = "raise" THEN status
       ELSE IF host.kind = "raise" THEN host
       ELSE IF room_id \notin DOMAIN room THEN Raised("NoResultFound")
       ELSE IF upto_member(room[room_id].joined_user_count) \in JoinRoomResult
       THEN Raised("TypeError")
       ELSE Returned(<<status.val, <<>> >>)

\* The (live_id, difficulty) pairs rooms are created with.
CreateInputs == {<<5, hard>>, <<6, normal>>}

Next ==
    \/ \E p \in Procs, token \in UsableTokens, inp \in CreateInputs :
          create_room(p, token, inp[1], inp[2])
    \/ \E p \in Procs : create_room_insert_room(p)
    \/ \E p \in Procs : create_room_insert_member(p)
    \/ \E p \in Procs : create_room_commit(p)
    \/ \E p \in Procs, token \in UsableTokens, room_id \in RoomIds :
          join_room(p, token, room_id)
    \/ \E p \in Procs : get_upto_member_room(p)
    \/ \E p \in Procs : get_room_user_count(p)
    \/ \E p \in Procs : insert_room_member(p)
    \/ \E p \in Procs : upcount_joined_count(p)
    \/ \E p \in Procs : insert_room_member_commit(p)
    \/ \E room_id \in DOMAIN room, status \in WaitRoomStatus :
          update_room_status(room_id, status)

Spec == Init /\ [][Next]_vars

\* Calls one after another: a call starts only when no other is running.
Quiescent == \A p \in Procs : pc[p] = "idle"

NextSeq ==
    \/ /\ Quiescent
       /\ \E p \in Procs, token \in UsableTokens, inp \in CreateInputs :
             create_room(p, token, inp[1], inp[2])
    \/ \E p \in Procs : create_room_insert_room(p)
    \/ \E p \in Procs : create_room_insert_member(p)
    \/ \E p \in Procs : create_room_commit(p)
    \/ /\ Quiescent
       /\ \E p \in Procs, token \in UsableTokens, room_id \in RoomIds :
             join_room(p, token, room_id)
    \/ \E p \in Procs : get_upto_member_room(p)
    \/ \E p \in Procs : get_room_user_count(p)
    \/ \E p \in Procs : insert_room_member(p)
    \/ \E p \in Procs : upcount_joined_count(p)
    \/ \E p \in Procs : insert_room_member_commit(p)
    \/ \E room_id \in DOMAIN room, status \in WaitRoomStatus :
          update_room_status(room_id, status)

SpecSeq == Init /\ [][NextSeq]_vars

\* Short runs: the same handlers, fewer requests.
InitShort ==
    /\ room = <<>>
    /\ room_member = [r \in RoomIds |-> <<>>]
    /\ next_room_id = 1
    /\ pc = [p \in Procs |-> "idle"]
    /\ frame = [p \in Procs |-> NoFrame]
    /\ uncommitted = [p \in Procs |-> NoWrites]
    /\ response = NoResponse
    /\ presented = 0
    /\ calls = ShortCalls

SpecShort == InitShort /\ [][Next]_vars

\* ---- the engine's connection pool
\* Every `with engine.begin() as conn` takes a connection from the pool when
\* it is entered and gives it back when it is left.  A handler holds the
\* connection of its outermost block from the start of the call to its end;
\* join_room holds a second one, insert_room_member's, from the INSERT to the
\* return of insert_room_member.
Held(p) ==
    CASE pc[p] = "idle" -> 0
      [] pc[p] \in {"jr_upcount", "jr_commit"} -> 2
      [] OTHER -> 1

RECURSIVE ConnectionsHeld(_)
ConnectionsHeld(S) ==
    IF S = {} THEN 0
    ELSE LET p == CHOOSE q \in S : TRUE
         IN Held(p) + ConnectionsHeld(S \ {p})

\* engine.begin() blocks while the pool has no connection to give.
ConnectionFree == ConnectionsHeld(Procs) < PoolSize

\* The next step of handler p enters an engine.begin() block of
\* get_upto_member_room, get_room_user_count, insert_room_member or
\* upcount_joined_count.
Acquires(p) == pc[p] \in {"jr_upto", "jr_count", "jr_insert", "jr_upcount"}

NextPool ==
    \/ /\ ConnectionFree
       /\ \E p \in Procs, token \in UsableTokens, inp \in CreateInputs :
             create_room(p, token, inp[1], inp[2])
    \/ \E p \in Procs : create_room_insert_room(p)
    \/ \E p \in Procs : create_room_insert_member(p)
    \/ \E p \in Procs : create_room_commit(p)
    \/ /\ ConnectionFree
       /\ \E p \in Procs, token \in UsableTokens, room_id \in RoomIds :
             join_room(p, token, room_id)
    \/ ConnectionFree /\ \E p \in Procs : get_upto_member_room(p)
    \/ ConnectionFree /\ \E p \in Procs : get_room_user_count(p)
    \/ ConnectionFree /\ \E p \in Procs : insert_room_member(p)
    \/ ConnectionFree /\ \E p \in Procs : upcount_joined_count(p)
    \/ \E p \in Procs : insert_room_member_commit(p)
    \/ /\ ConnectionFree
       /\ \E room_id \in DOMAIN room, status \in WaitRoomStatus :
             update_room_status(room_id, status)

SpecPool == InitShort /\ [][NextPool]_vars

\* ---- the claims

InOrders(rows) == {rows[i].in_order : i \in DOMAIN rows}

\* The call that ended last was join_room on a room that existed when the
\* call started.
JoinEnded == response.call.op = "join_room" /\ response.call.pre.exists
ValidJoinEnded == JoinEnded /\ response.call.user # None

\* The handlers running join_room on room r.
JoinsInFlight(r) ==
    {p \in Procs : frame[p].op = "join_room" /\ frame[p].room_id = r}

\* The members of room r and the callers of the join_room calls running on
\* it are players, each a different one.
DistinctPlayers(r) ==
    /\ Cardinality(UserIdsOf(room_member[r])) = Len(room_member[r])
    /\ \A p \in JoinsInFlight(r) :
           /\ frame[p].user # None
           /\ frame[p].user \notin UserIdsOf(room_member[r])
           /\ \A q \in JoinsInFlight(r) : q # p => frame[q].user # frame[p].user

\* C1: every room's joined_user_count is between 0 and the capacity, 4, in
\* every reachable state.
CapacityBound ==
    \A r \in DOMAIN room :
        /\ 0 <= room[r].joined_user_count
        /\ room[r].joined_user_count <= max_user_count

\* C2: when join_room calls of distinct valid players find a room at
\* joined_count 3, each returns Ok or RoomFull and the room ends at
\* joined_count 4: of the calls racing for the last place one is admitted.
RaceSafety ==
    (/\ ValidJoinEnded
     /\ response.call.pre.joined_user_count = max_user_count - 1
     /\ DistinctPlayers(response.call.room_id)
     /\ \A p \in JoinsInFlight(response.call.room_id) :
            frame[p].pre.joined_user_count = max_user_count - 1)
        => /\ response.kind = "return"
           /\ response.val \in {Ok, RoomFull}
           /\ room[response.call.room_id].joined_user_count = max_user_count

\* C3: in every committed state a room's joined_user_count equals the number
\* of its committed room_member rows.
CounterMatchesMembership ==
    \A r \in DOMAIN room : room[r].joined_user_count = Len(room_member[r])

\* C4: the in_order values of a room's committed memberships are pairwise
\* distinct and are exactly 1..n, n the number of its memberships (stated
\* for the states in which no join_room is running on the room, and for
\* rooms whose members are distinct players).
JoinOrderUnique ==
    \A r \in DOMAIN room :
        (JoinsInFlight(r) = {} /\ DistinctPlayers(r)) =>
            /\ \A i, j \in DOMAIN room_member[r] :
                   i # j => room_member[r][i].in_order # room_member[r][j].in_order
            /\ InOrders(room_member[r]) = 1..Len(room_member[r])

\* C5: a join_room by a player who already is a member of the room returns an
\* outcome of its own (none of Ok, RoomFull, Disbanded, OtherError), and the
\* player still has one membership in the room.
NoDoubleAdmission ==
    (ValidJoinEnded /\ response.call.pre.member)
        => /\ response.kind = "return"
           /\ response.val \notin JoinRoomResult
           /\ Cardinality({i \in DOMAIN room_member[response.call.room_id] :
                  room_member[response.call.room_id][i].user_id =
                      response.call.user}) = 1

\* C6: a join_room on a room whose status is Dissolution returns Disbanded,
\* whatever the room's joined_count.
DissolutionFinality ==
    (/\ ValidJoinEnded
     /\ ~response.call.pre.member
     /\ response.call.pre.status = Dissolution
     /\ room[response.call.room_id].status = Dissolution)
        => (response.kind = "return" /\ response.val = Disbanded)

\* C7: search_room(live_id) is exactly the set of rooms of that live_id that
\* are Waiting and have 0 < joined_count < capacity.
SearchExactness ==
    \A live_id \in LiveIds :
        search_room(live_id) =
            {r \in DOMAIN room : /\ room[r].live_id = live_id
                                 /\ room[r].status = Waiting
                                 /\ 0 < room[r].joined_user_count
                                 /\ room[r].joined_user_count < max_user_count}

\* C8: with calls one after another, the joins of a room are numbered 2, 3, 4
\* in call order: a join_room by a valid player that finds joined_count n < 4
\* returns Ok and adds the caller's membership with in_order n + 1 as the
\* room's member n + 1; one that finds 4 returns RoomFull and the room keeps
\* joined_count 4 and its 4 memberships.
SequentialAdmission ==
    /\ \A r \in DOMAIN room :
           /\ room[r].joined_user_count <= max_user_count
           /\ Len(room_member[r]) <= max_user_count
           /\ Quiescent => room[r].joined_user_count = Len(room_member[r])
           /\ \A i \in DOMAIN room_member[r] :
                  i >= 2 => room_member[r][i].in_order = i
    /\ ValidJoinEnded =>
           LET c == response.call
               n == c.pre.joined_user_count
           IN /\ response.kind = "return"
              /\ n = c.pre.members
              /\ IF n < max_user_count
                 THEN /\ response.val = Ok
                      /\ room[c.room_id].joined_user_count >= n + 1
                      /\ Len(room_member[c.room_id]) >= n + 1
                      /\ room_member[c.room_id][n + 1] =
                             [room_id |-> c.room_id, user_id |-> c.user,
                              difficulty |-> 1, in_order |-> n + 1]
                 ELSE /\ response.val = RoomFull
                      /\ room[c.room_id].joined_user_count = n
                      /\ Len(room_member[c.room_id]) = n

\* C8's case: a room created by one player and joined by three others, in
\* orders 1 to 4, has just answered RoomFull to a fifth player.
SequentialAdmissionWitness ==
    /\ Quiescent
    /\ ValidJoinEnded
    /\ response.kind = "return"
    /\ response.val = RoomFull
    /\ LET rows == room_member[response.call.room_id] IN
       /\ Len(rows) = 4
       /\ room[response.call.room_id].joined_user_count = 4
       /\ \A i \in 1..4 : rows[i].in_order = i
       /\ Cardinality(UserIdsOf(rows) \cup {response.call.user}) = 5
       /\ rows[1].user_id = room[response.call.room_id].room_master

\* The membership create_room writes for the host of room r.
HostMembership(rooms, r, difficulty) ==
    [room_id |-> r, user_id |-> rooms[r].room_master,
     difficulty |-> difficulty, in_order |-> 1]

\* C9: a room appears only when a create_room commits, and then together with
\* its host's membership: the step adds one room with joined_count 1, status
\* Waiting and the caller as host, and one membership of the caller with
\* join order 1 and the given difficulty; every room in every state has its
\* host's membership as its first.
RoomCreationStep ==
    /\ \A r \in DOMAIN room' :
           /\ Len(room_member'[r]) >= 1
           /\ \E d \in LiveDifficulty :
                  room_member'[r][1] = HostMembership(room', r, d)
    /\ \A r \in DOMAIN room' \ DOMAIN room :
           \E p \in Procs :
               /\ pc[p] = "cr_commit"
               /\ pc'[p] = "idle"
               /\ frame[p].room_id = r
               /\ DOMAIN room' = DOMAIN room \cup {r}
               /\ \A q \in DOMAIN room : room'[q] = room[q]
               /\ room'[r] = [live_id |-> frame[p].live_id,
                              room_master |-> frame[p].user,
                              joined_user_count |-> 1, status |-> Waiting]
               /\ frame[p].user = get_user_by_token(frame[p].token)
               /\ frame[p].user # None
               /\ room_member' = [room_member EXCEPT ![r] =
                      <<HostMembership(room', r, frame[p].difficulty)>>]
               /\ response' = Return(frame[p], r)
    /\ \A p \in Procs :
           (pc[p] = "cr_commit" /\ pc'[p] = "idle")
               => frame[p].room_id \in DOMAIN room' \ DOMAIN room

InvalidTokenJoin ==
    (JoinEnded /\ response.call.user = None)
        => (response.kind = "raise" /\ response.exc = "InvalidToken")

\* C11: a create_room with a token of no player raises InvalidToken, and the
\* step in which it does leaves the rooms, the memberships, the id counter
\* and every handler's pending writes as they were.
InvalidTokenCreateStep ==
    (response'.call.op = "create_room" /\ response'.call.user = None)
        => /\ response'.kind = "raise"
           /\ response'.exc = "InvalidToken"
           /\ response' # response =>
                  /\ room' = room
                  /\ room_member' = room_member
                  /\ next_room_id' = next_room_id
                  /\ uncommitted' = uncommitted
                  /\ pc' = pc

InvalidTokenCreate == [][InvalidTokenCreateStep]_vars

\* C11's case: a room and its host's membership exist, and a create_room
\* carrying the token of no player has just been refused.
InvalidTokenCreateWitness ==
    /\ response.call.op = "create_room"
    /\ response.call.token = BadToken
    /\ response.kind = "raise"
    /\ response.exc = "InvalidToken"
    /\ DOMAIN room = {1}
    /\ Len(room_member[1]) = 1
    /\ next_room_id = 2

\* The members of room r as room_wait is to list them: by in_order
\* ascending, the host marked.
IsInJoinOrder(rows) ==
    \A i, j \in DOMAIN rows : i < j => rows[i].in_order < rows[j].in_order

UserList(r) ==
    [i \in DOMAIN room_member[r] |->
        [id |-> room_member[r][i].user_id,
         difficulty |-> room_member[r][i].difficulty,
         is_host |-> room_member[r][i].user_id = room[r].room_master]]

\* C12: room_wait(r) returns the room's current status and exactly its
\* current members, ordered by in_order ascending, is_host true exactly for
\* the room's host (stated for the rooms whose committed memberships are in
\* in_order order, with no join_room running on them).
RoomWaitSnapshot ==
    \A r \in DOMAIN room :
        (JoinsInFlight(r) = {} /\ IsInJoinOrder(room_member[r])) =>
            /\ room_wait(r).kind = "return"
            /\ room_wait(r).val = <<room[r].status, UserList(r)>>

\* C13: a join_room whose room id names no room ends by raising the store's
\* not-found failure, NoResultFound, not by returning an admission outcome;
\* the step in which it finds no room inserts no membership and changes no
\* room.
RoomNotFoundStep ==
    /\ \A p \in Procs :
           (/\ pc[p] = "jr_upto"
            /\ pc'[p] # "jr_upto"
            /\ frame[p].room_id \notin DOMAIN room)
               => /\ pc'[p] = "idle"
                  /\ response' = Raise(frame[p], "NoResultFound")
                  /\ room' = room
                  /\ room_member' = room_member
                  /\ next_room_id' = next_room_id
                  /\ uncommitted' = uncommitted
    /\ (response'.call.op = "join_room" /\ response'.call.room_id \notin DOMAIN room')
           => /\ response'.kind = "raise"
              /\ response'.exc = "NoResultFound"

RoomNotFound == [][RoomNotFoundStep]_vars

\* C13's case: room 1 exists with its host alone, and a join_room of another
\* player on room 2, which does not exist, has just ended.
RoomNotFoundWitness ==
    /\ DOMAIN room = {1}
    /\ response.call.op = "join_room"
    /\ response.call.room_id = 2
    /\ response.call.user \notin {None, room[1].room_master}
    /\ response.kind = "raise"
    /\ response.exc = "NoResultFound"
    /\ room[1].joined_user_count = 1
    /\ Len(room_member[1]) = 1
    /\ room_member[2] = <<>>

\* C14: a membership is added only to a room that is Waiting and below
\* capacity: a join_room by a player who is no member, on a room that is
\* LiveStart from the start of the call to its end, returns RoomFull and the
\* room keeps the memberships it had.
AdmissionGuard ==
    (/\ ValidJoinEnded
     /\ ~response.call.pre.member
     /\ response.call.pre.status = LiveStart
     /\ room[response.call.room_id].status = LiveStart
     /\ JoinsInFlight(response.call.room_id) = {})
        => /\ response.kind = "return"
           /\ response.val = RoomFull
           /\ Len(room_member[response.call.room_id]) = response.call.pre.members

\* C15: update_room_status(room_id, status) sets the status of the room
\* room_id only: no step changes the status of more than one room.
StatusUpdateScopedStep ==
    Cardinality({r \in DOMAIN room : room'[r].status # room[r].status}) <= 1

StatusUpdateScoped == [][StatusUpdateScopedStep]_vars

\* C16: join order follows commit order: of two memberships that join_room
\* calls of distinct players added to a room, the one committed earlier has
\* the strictly smaller in_order (room_member keeps a room's rows in the
\* order of their commits; row 1 is the host's).
JoinOrderFollowsCommit ==
    \A r \in DOMAIN room :
        DistinctPlayers(r) =>
            \A i, j \in DOMAIN room_member[r] :
                (2 <= i /\ i < j) =>
                    room_member[r][i].in_order < room_member[r][j].in_order

\* C17: rooms are independent: every step of a join_room call on room R, from
\* its start to its return, leaves the row and the memberships of every other
\* room as they were.
RoomIndependenceStep ==
    \A p \in Procs :
        (pc'[p] # pc[p] /\ "join_room" \in {frame[p].op, frame'[p].op}) =>
            LET R == IF frame[p].op = "join_room"
                     THEN frame[p].room_id ELSE frame'[p].room_id
            IN \A r \in RoomIds \ {R} :
                   /\ room_member'[r] = room_member[r]
                   /\ (r \in DOMAIN room') = (r \in DOMAIN room)
                   /\ r \in DOMAIN room => room'[r] = room[r]

RoomIndependence == [][RoomIndependenceStep]_vars

\* C17's case: two rooms exist, and a join_room on room 1 has just returned
\* Ok and added its caller to room 1; room 2 has its host alone.
RoomIndependenceWitness ==
    /\ DOMAIN room = {1, 2}
    /\ response.call.op = "join_room"
    /\ response.call.room_id = 1
    /\ response.kind = "return"
    /\ response.val = Ok
    /\ room[1].joined_user_count = 2
    /\ Len(room_member[1]) = 2
    /\ room[2].joined_user_count = 1
    /\ Len(room_member[2]) = 1

\* C18: outcome and effect of a join_room by a valid player agree.  A call
\* goes once through: judging, counting, INSERT, increment, commit.  It
\* returns RoomFull, Disbanded or OtherError only from the judging, having
\* inserted nothing and changed nothing; it returns Ok only from the commit,
\* which adds the one membership it inserted for its caller in its room,
\* after the one step that raised the room's joined_user_count by one; no
\* other step of the call changes a room or a membership.
OutcomeEffectStep ==
    \A p \in Procs :
        (frame[p].op = "join_room" /\ frame[p].user # None /\ pc'[p] # pc[p]) =>
            LET R == frame[p].room_id
                Untouched == room' = room /\ room_member' = room_member
            IN CASE pc[p] = "jr_upto" ->
                       /\ Untouched
                       /\ uncommitted[p] = NoWrites /\ uncommitted'[p] = NoWrites
                       /\ \/ pc'[p] = "jr_count"
                          \/ /\ pc'[p] = "idle"
                             /\ response'.call.room_id = R
                             /\ \/ response'.kind = "raise"
                                \/ response'.val \in {RoomFull, Disbanded, OtherError}
                 [] pc[p] = "jr_count" ->
                       /\ Untouched
                       /\ uncommitted'[p] = NoWrites
                       /\ pc'[p] = "jr_insert"
                 [] pc[p] = "jr_insert" ->
                       /\ Untouched
                       /\ pc'[p] = "jr_upcount"
                       /\ Len(uncommitted'[p].room_member) = 1
                       /\ uncommitted'[p].room_member[1].room_id = R
                       /\ uncommitted'[p].room_member[1].user_id = frame[p].user
                 [] pc[p] = "jr_upcount" ->
                       /\ pc'[p] = "jr_commit"
                       /\ room_member' = room_member
                       /\ uncommitted' = uncommitted
                       /\ room' = [room EXCEPT ![R].joined_user_count = @ + 1]
                 [] pc[p] = "jr_commit" ->
                       /\ pc'[p] = "idle"
                       /\ room' = room
                       /\ room_member' = [room_member EXCEPT ![R] =
                              Append(@, uncommitted[p].room_member[1])]
                       /\ response'.call.room_id = R
                       /\ response'.call.user = frame[p].user
                       /\ response'.kind = "return"
                       /\ response'.val = Ok
                 [] OTHER -> FALSE

OutcomeEffect == [][OutcomeEffectStep]_vars

\* C18's case: three join_room calls have returned Ok on a room, which has
\* its four memberships of four players and joined_user_count 4, and the
\* join_room of a fifth player has just returned RoomFull.
OutcomeEffectWitness ==
    /\ ValidJoinEnded
    /\ response.kind = "return"
    /\ response.val = RoomFull
    /\ room[response.call.room_id].joined_user_count = 4
    /\ Len(room_member[response.call.room_id]) = 4
    /\ Cardinality(UserIdsOf(room_member[response.call.room_id])
                       \cup {response.call.user}) = 5

\* C19: the nested connections of join_room cannot deadlock on a pool of
\* PoolSize >= 3 connections: in no reachable state is every running call
\* holding a connection and waiting for another; whenever calls are running,
\* one of them can take its next step.
NestedConnectionsDeadlockFree ==
    (\E p \in Procs : pc[p] # "idle") =>
        \E p \in Procs : pc[p] # "idle" /\ (Acquires(p) => ConnectionFree)

====
